---- MODULE Spec2Model ----
(***************************************************************************)
(* Numbering and ledger logic of the MPshoes / MPfootwear back office:     *)
(*   - the read-max-then-insert identifier generation of Sale, Order and   *)
(*     Vendor,                                                             *)
(*   - the balance arithmetic of CustomerLoyalty, Wallet and GiftCard,     *)
(*   - gift card codes, the payment status of sales and vendor bills, the  *)
(*     shopping cart and its totals, and email verification tokens.        *)
(* Database tables are sequences of rows in creation order; a model        *)
(* instance is a record holding a copy of its row.  Identifiers are        *)
(* strings: sequences of characters, a letter being a one-letter string    *)
(* and a decimal digit the number it stands for; after the prefix of an    *)
(* identifier a number above 9 is a character that is no digit (digits     *)
(* sort before letters), and -1 is the character '-'.                      *)
(* Money amounts are integers (the smallest currency unit).                *)
(***************************************************************************)
EXTENDS Integers, Sequences, FiniteSets, TLC

VARIABLES
    now,          \* timezone.now(), counted in days
    sales,        \* table sales_sale
    orders,       \* table orders_order
    orderReq,     \* Order instances being saved by concurrent requests
    vendors,      \* table vendors_vendor, soft-deleted rows included
    loyalty,      \* the row of one CustomerLoyalty account
    loyaltyTxns,  \* table customers_loyaltytransaction (of that account)
    wallet,       \* the row of one Wallet
    walletTxns,   \* table payments_wallettransaction
    card,         \* the row of one GiftCard
    cardTxns,     \* table payments_giftcardtransaction (of that card)
    debitReq,     \* account instances held by concurrent requests
    giftCodes,    \* the code column of table payments_giftcard
    codeReq,      \* the GiftCard.save() call that is generating a code
    bills,        \* table vendors_vendorbill
    cart,         \* the row of one ShoppingCart
    cartItems,    \* table ecommerce_cartitem (of that cart)
    user,         \* the row of one User
    tokens,       \* table accounts_emailverificationtoken (of that user)
    result        \* the last call: its name, its amount, whether it returned
                  \* ("ok") or what it raised, and the instance it ran on as
                  \* the call left it

seqVars == <<sales, orders, orderReq, vendors>>
ledgerVars == <<loyalty, loyaltyTxns, wallet, walletTxns, card, cardTxns>>
otherVars == <<seqVars, debitReq>>
codeVars == <<giftCodes, codeReq>>
cartVars == <<cart, cartItems>>
tokenVars == <<user, tokens>>
extraVars == <<codeVars, bills, cartVars, tokenVars>>

-----------------------------------------------------------------------------
(* Bounds of the model *)

MaxDay == 1
MaxRows == 3
MaxOps == 3
NumRequests == 2
MaxPoints == 4
NumCodes == 4
MaxItems == 2
MaxQuantity == 2

Days == 0..MaxDay
Requests == 1..NumRequests
\* uuid.uuid4() values; their order is the order of the primary keys
Uuids == 1..MaxRows

None == "None"

-----------------------------------------------------------------------------
(* Strings *)

Entities == {"MPSHOES", "MPFOOTWEAR"}

EntityChars(e) ==
    CASE e = "MPSHOES"    -> <<"M", "P", "S", "H", "O", "E", "S">>
      [] e = "MPFOOTWEAR" -> <<"M", "P", "F", "O", "O", "T", "W", "E", "A", "R">>

\* entity[:2]
Prefix2(e) == SubSeq(EntityChars(e), 1, 2)

\* s[-k:]
LastChars(s, k) == IF Len(s) <= k THEN s ELSE SubSeq(s, Len(s) - k + 1, Len(s))

RECURSIVE Digits(_)
\* str(n) for n >= 0, as decimal digits
Digits(n) == IF n < 10 THEN <<n>> ELSE Digits(n \div 10) \o <<n % 10>>

RECURSIVE ZeroFill(_, _)
ZeroFill(s, w) == IF Len(s) >= w THEN s ELSE ZeroFill(<<0>> \o s, w)

\* f"{n:0wd}"
Pad(n, w) == ZeroFill(Digits(n), w)

RECURSIVE IntOf(_)
\* int(s) of a string of decimal digits
IntOf(s) == IF s = <<>> THEN 0 ELSE 10 * IntOf(SubSeq(s, 1, Len(s) - 1)) + s[Len(s)]

RECURSIVE LexLess(_, _)
\* a < b in the database's string collation (lexicographic)
LexLess(a, b) ==
    IF b = <<>> THEN FALSE
    ELSE IF a = <<>> THEN TRUE
    ELSE IF a[1] # b[1] THEN a[1] < b[1]
    ELSE LexLess(Tail(a), Tail(b))

Range(s) == {s[i] : i \in 1..Len(s)}

\* The value of result after a call
Call(op, amount, outcome, self) ==
    [op |-> op, amount |-> amount, outcome |-> outcome, self |-> self]

\* s.startswith(p)
StartsWith(s, p) == Len(s) >= Len(p) /\ SubSeq(s, 1, Len(p)) = p

\* s[k-1:], the characters from position k on
AllFrom(s, k) == SubSeq(s, k, Len(s))

\* today.strftime('%Y%m%d'): eight digits, day 0 being 2024-05-01
DateStr(day) == Pad(20240501 + day, 8)

-----------------------------------------------------------------------------
(* Sale numbers *)

SaleWidth == 4

\* Sale.objects.filter(entity=..., sale_number__startswith=p)
SalesStartingWith(tbl, e, p) ==
    {r \in Range(tbl) : r.entity = e /\ StartsWith(r.sale_number, p)}

\* .order_by('sale_number').last() of a non-empty queryset
LastSale(rows) ==
    CHOOSE r \in rows : \A q \in rows : ~LexLess(r.sale_number, q.sale_number)

\* generate_sale_number() whose lookup leaves the date out of the prefix
generate_sale_number_AllDates(tbl, e, day) ==
    LET prefix == Prefix2(e) \o <<"S">>
        date_str == DateStr(day)
        found == SalesStartingWith(tbl, e, prefix)
        new_number == IF found # {}
                      THEN IntOf(LastChars(LastSale(found).sale_number, SaleWidth)) + 1
                      ELSE 1
    IN prefix \o date_str \o Pad(new_number, SaleWidth)

generate_sale_number(tbl, e, day) ==
    LET prefix == Prefix2(e) \o <<"S">>
        date_str == DateStr(day)
        found == SalesStartingWith(tbl, e, prefix \o date_str)
        new_number == IF found # {}
                      THEN IntOf(LastChars(LastSale(found).sale_number, SaleWidth)) + 1
                      ELSE 1
    IN prefix \o date_str \o Pad(new_number, SaleWidth)

PaymentStatus(total_amount, paid_amount) ==
    IF paid_amount <= 0 THEN "PENDING"
    ELSE IF paid_amount >= total_amount THEN "PAID"
    ELSE "PARTIAL"

\* The row Sale.save() hands to the database for a new Sale
NewSaleRow(tbl, e, day, total_amount, paid_amount, commission_rate) ==
    [entity |-> e,
     sale_number |-> generate_sale_number(tbl, e, day),
     total_amount |-> total_amount,
     paid_amount |-> paid_amount,
     balance_amount |-> total_amount - paid_amount,
     payment_status |-> PaymentStatus(total_amount, paid_amount),
     commission_rate |-> commission_rate,
     commission_amount |-> IF commission_rate > 0
                           THEN (total_amount * commission_rate) \div 100
                           ELSE 0]

\* sale_number is unique=True
SaleInsertOk(tbl, row) == \A r \in Range(tbl) : r.sale_number # row.sale_number

\* total_amount, paid_amount, commission_rate of a new Sale
SaleInputs == {<<4, 0, 0>>, <<4, 2, 50>>, <<4, 4, 0>>}

\* Sale(entity=e, ...).save()
SaleSave(e, inp) ==
    /\ Len(sales) + Len(orders) < MaxRows
    /\ LET row == NewSaleRow(sales, e, now, inp[1], inp[2], inp[3])
       IN IF SaleInsertOk(sales, row)
          THEN /\ sales' = Append(sales, row)
               /\ result' = Call("Sale.save", 0, "ok", row)
          ELSE /\ sales' = sales
               /\ result' = Call("Sale.save", 0, "IntegrityError", row)
    /\ UNCHANGED <<now, extraVars, orders, orderReq, vendors, ledgerVars, debitReq>>

\* Sale.save() of a stored sale that keeps a payment_status assigned by the
\* caller
SaleSaved_KeepsStatus(self) ==
    [self EXCEPT
       !.balance_amount = self.total_amount - self.paid_amount,
       !.payment_status = IF @ \in {"REFUNDED", "CANCELLED"} THEN @
                          ELSE PaymentStatus(self.total_amount, self.paid_amount),
       !.commission_amount = IF self.commission_rate > 0
                             THEN (self.total_amount * self.commission_rate) \div 100
                             ELSE @]

\* What Sale.save() makes of an instance that has its sale_number
SaleSaved(self) ==
    [self EXCEPT
       !.balance_amount = self.total_amount - self.paid_amount,
       !.payment_status = PaymentStatus(self.total_amount, self.paid_amount),
       !.commission_amount = IF self.commission_rate > 0
                             THEN (self.total_amount * self.commission_rate) \div 100
                             ELSE @]

\* PAYMENT_STATUS_CHOICES
SaleStatuses == {"PENDING", "PARTIAL", "PAID", "REFUNDED", "CANCELLED"}
\* paid_amount of a sale whose total_amount is 4
PaidArgs == {0, 2, 4}

\* The call of SaleResave, the payment_status the caller assigned included
SaleResaveOp(st) == "Sale.save after payment_status = " \o st

\* The i-th sale is loaded, the caller assigns payment_status and paid_amount,
\* and calls save()
SaleResave(i, st, paid) ==
    /\ i \in 1..Len(sales)
    /\ LET self == [sales[i] EXCEPT !.payment_status = st, !.paid_amount = paid]
           row == SaleSaved(self)
       IN /\ sales' = [sales EXCEPT ![i] = row]
          /\ result' = Call(SaleResaveOp(st), paid, "ok", row)
    /\ UNCHANGED <<now, extraVars, orders, orderReq, vendors, ledgerVars, debitReq>>

-----------------------------------------------------------------------------
(* Order numbers and display ids *)

OrderWidth == 6
DisplayFloor == 1000

\* Order.objects.filter(entity=..., order_number__startswith=p)
OrdersStartingWith(tbl, e, p) ==
    {r \in Range(tbl) : r.entity = e /\ StartsWith(r.order_number, p)}

\* .order_by('order_number').last() of a non-empty queryset
LastOrder(rows) ==
    CHOOSE r \in rows : \A q \in rows : ~LexLess(r.order_number, q.order_number)

generate_order_number(tbl, e, day) ==
    LET prefix == Prefix2(e) \o <<"O">>
        date_str == DateStr(day)
        found == OrdersStartingWith(tbl, e, prefix \o date_str)
        new_number == IF found # {}
                      THEN IntOf(LastChars(LastOrder(found).order_number, OrderWidth)) + 1
                      ELSE 1
    IN prefix \o date_str \o Pad(new_number, OrderWidth)

\* .order_by('-id').first() of a non-empty queryset
FirstByIdDesc(rows) == CHOOSE r \in rows : \A q \in rows : q.id <= r.id

generate_display_id(tbl, e) ==
    LET prefix == Prefix2(e)
        found == {r \in Range(tbl) : r.entity = e}
        new_number == IF found # {} /\ FirstByIdDesc(found).display_id # <<>>
                      THEN IntOf(AllFrom(FirstByIdDesc(found).display_id, 3)) + 1
                      ELSE DisplayFloor
    IN prefix \o Digits(new_number)

\* id is the primary key; order_number and display_id are unique=True
OrderInsertOk(tbl, row) ==
    \A r \in Range(tbl) : /\ r.id # row.id
                          /\ r.order_number # row.order_number
                          /\ r.display_id # row.display_id

FreshUuids == Uuids \ ({r.id : r \in Range(orders)}
                        \cup {orderReq[w].id : w \in Requests})

\* Order(entity=e).save() run from start to end by one request
OrderSave(e, id) ==
    /\ Len(sales) + Len(orders) < MaxRows
    /\ id \in FreshUuids
    /\ LET row == [id |-> id, entity |-> e,
                   order_number |-> generate_order_number(orders, e, now),
                   display_id |-> generate_display_id(orders, e)]
       IN IF OrderInsertOk(orders, row)
          THEN /\ orders' = Append(orders, row)
               /\ result' = Call("Order.save", 0, "ok", row)
          ELSE /\ orders' = orders
               /\ result' = Call("Order.save", 0, "IntegrityError", row)
    /\ UNCHANGED <<now, extraVars, sales, orderReq, vendors, ledgerVars, debitReq>>

Tick ==
    /\ now < MaxDay
    /\ now' = now + 1
    /\ UNCHANGED <<seqVars, ledgerVars, debitReq, extraVars, result>>

-----------------------------------------------------------------------------
(* Order.save() by concurrent requests: each database query is one step *)

IdleReq == [pc |-> "idle", id |-> 0, entity |-> None, day |-> 0,
            order_number |-> <<>>, display_id |-> <<>>]

\* Order(entity=e) is constructed and save() runs generate_order_number()
OrderGenNumber(w, e, id) ==
    /\ orderReq[w].pc = "idle"
    /\ id \in FreshUuids
    /\ orderReq' = [orderReq EXCEPT ![w] =
                      [pc |-> "numbered", id |-> id, entity |-> e, day |-> now,
                       order_number |-> generate_order_number(orders, e, now),
                       display_id |-> <<>>]]
    /\ UNCHANGED <<now, extraVars, sales, orders, vendors, ledgerVars, debitReq, result>>

\* save() runs generate_display_id()
OrderGenDisplay(w) ==
    /\ orderReq[w].pc = "numbered"
    /\ orderReq' = [orderReq EXCEPT ![w].pc = "displayed",
                                    ![w].display_id =
                                        generate_display_id(orders, orderReq[w].entity)]
    /\ UNCHANGED <<now, extraVars, sales, orders, vendors, ledgerVars, debitReq, result>>

\* save() runs super().save(): the INSERT
OrderInsert(w) ==
    /\ orderReq[w].pc = "displayed"
    /\ LET row == [id |-> orderReq[w].id, entity |-> orderReq[w].entity,
                   order_number |-> orderReq[w].order_number,
                   display_id |-> orderReq[w].display_id]
       IN IF OrderInsertOk(orders, row)
          THEN /\ orders' = Append(orders, row)
               /\ orderReq' = [orderReq EXCEPT ![w].pc = "saved"]
               /\ result' = Call("Order.save", 0, "ok", row)
          ELSE /\ orders' = orders
               /\ orderReq' = [orderReq EXCEPT ![w].pc = "IntegrityError"]
               /\ result' = Call("Order.save", 0, "IntegrityError", row)
    /\ UNCHANGED <<now, extraVars, sales, vendors, ledgerVars, debitReq>>

-----------------------------------------------------------------------------
(* Vendor codes; Vendor is a SoftDeleteMixin model *)

VendorWidth == 4

\* SoftDeleteManager.get_queryset(): what Vendor.objects sees of the table
get_queryset(tbl) == {r \in Range(tbl) : ~r.is_deleted}

\* Vendor.objects.filter(entity=..., vendor_code__startswith=p)
VendorsStartingWith(tbl, e, p) ==
    {r \in get_queryset(tbl) : r.entity = e /\ StartsWith(r.vendor_code, p)}

\* .order_by('vendor_code').last() of a non-empty queryset
LastVendor(rows) ==
    CHOOSE r \in rows : \A q \in rows : ~LexLess(r.vendor_code, q.vendor_code)

\* int(s) returns: s is a non-empty string of decimal digits
IsDecimal(s) == s # <<>> /\ \A i \in 1..Len(s) : s[i] \in 0..9

\* The code returned, or the exception int() raised
generate_vendor_code(tbl, e) ==
    LET prefix == Prefix2(e) \o <<"V">>
        found == VendorsStartingWith(tbl, e, prefix)
        suffix == AllFrom(LastVendor(found).vendor_code, 4)
    IN IF found = {}
       THEN [raised |-> None, vendor_code |-> prefix \o Pad(1, VendorWidth)]
       ELSE IF ~IsDecimal(suffix)
       THEN [raised |-> "ValueError", vendor_code |-> <<>>]
       ELSE [raised |-> None,
             vendor_code |-> prefix \o Pad(IntOf(suffix) + 1, VendorWidth)]

\* vendor_code is unique=True, over every row of the table
VendorInsertOk(tbl, row) ==
    \A r \in Range(tbl) : r.vendor_code # row.vendor_code

\* A vendor_code set by the caller before save(): its suffix is no number
GivenVendorCodes == {<<"M", "P", "V", 33>>}

\* The vendor_code with the largest suffix of the width: 9999
LargestVendorCode(e) ==
    Prefix2(e) \o <<"V">> \o Pad(10^VendorWidth - 1, VendorWidth)

\* Vendor(entity=e, vendor_code=code).save(); code = <<>> is the empty default,
\* for which save() generates the code
VendorSave(e, code) ==
    /\ Len(vendors) < MaxRows
    /\ LET op == IF code = <<>> THEN "Vendor.save" ELSE "Vendor.save(vendor_code)"
           g == IF code = <<>> THEN generate_vendor_code(vendors, e)
                ELSE [raised |-> None, vendor_code |-> code]
           row == [entity |-> e, vendor_code |-> g.vendor_code,
                   is_deleted |-> FALSE, deleted_at |-> <<>>]
       IN IF g.raised # None
          THEN /\ vendors' = vendors
               /\ result' = Call(op, 0, g.raised, row)
          ELSE IF VendorInsertOk(vendors, row)
          THEN /\ vendors' = Append(vendors, row)
               /\ result' = Call(op, 0, "ok", row)
          ELSE /\ vendors' = vendors
               /\ result' = Call(op, 0, "IntegrityError", row)
    /\ UNCHANGED <<now, extraVars, sales, orders, orderReq, ledgerVars, debitReq>>

\* SoftDeleteMixin.delete() on the i-th vendor the default manager returns
VendorDelete(i) ==
    /\ i \in 1..Len(vendors)
    /\ ~vendors[i].is_deleted
    /\ vendors' = [vendors EXCEPT ![i].is_deleted = TRUE, ![i].deleted_at = <<now>>]
    /\ result' = Call("Vendor.delete", 0, "ok", vendors'[i])
    /\ UNCHANGED <<now, extraVars, sales, orders, orderReq, ledgerVars, debitReq>>

-----------------------------------------------------------------------------
(* Vendor bills *)

BillWidth == 4

\* bill_date.year, in digits
BillYear(day) == Digits((20240501 + day) \div 10000)

\* The character '-', which sorts before the digits
Dash == -1

RECURSIVE AfterLastDash(_)
\* s.split('-')[-1]: the characters after the last '-', read from the end
AfterLastDash(s) ==
    IF s = <<>> \/ s[Len(s)] = Dash THEN <<>>
    ELSE AfterLastDash(SubSeq(s, 1, Len(s) - 1)) \o <<s[Len(s)]>>

\* VendorBill.objects.filter(entity=..., bill_number__startswith=p)
BillsStartingWith(tbl, e, p) ==
    {r \in Range(tbl) : r.entity = e /\ StartsWith(r.bill_number, p)}

\* .order_by('bill_number').last() of a non-empty queryset
LastBill(rows) ==
    CHOOSE r \in rows : \A q \in rows : ~LexLess(r.bill_number, q.bill_number)

generate_bill_number(tbl, e, day) ==
    LET prefix == Prefix2(e) \o <<"B">>
        current_year == BillYear(day)
        found == BillsStartingWith(tbl, e, prefix \o current_year)
        new_number == IF found # {}
                      THEN IntOf(AfterLastDash(LastBill(found).bill_number)) + 1
                      ELSE 1
    IN prefix \o current_year \o <<Dash>> \o Pad(new_number, BillWidth)

BillStatus(total_amount, paid_amount) ==
    IF paid_amount <= 0 THEN "PENDING"
    ELSE IF paid_amount >= total_amount THEN "PAID"
    ELSE "PARTIALLY_PAID"

\* What VendorBill.save() makes of an instance that has its bill_number
BillSaved(self) ==
    [self EXCEPT
       !.outstanding_amount = self.total_amount - self.paid_amount,
       !.status = BillStatus(self.total_amount, self.paid_amount)]

\* UniqueConstraint(fields=['entity', 'bill_number'])
BillInsertOk(tbl, row) ==
    \A r \in Range(tbl) : ~(r.entity = row.entity /\ r.bill_number = row.bill_number)

\* BILL_STATUS_CHOICES
BillStatuses == {"DRAFT", "PENDING", "PARTIALLY_PAID", "PAID", "OVERDUE", "CANCELLED"}
\* total_amount, paid_amount of a new bill
BillInputs == {<<4, 0>>, <<4, 2>>, <<4, 4>>}

\* VendorBill(entity=e, bill_date=today, ...).save(): status is the default
\* DRAFT and outstanding_amount the default 0 when save() starts
VendorBillSave(e, inp) ==
    /\ Len(sales) + Len(bills) < MaxRows
    /\ LET self == [entity |-> e,
                    bill_number |-> generate_bill_number(bills, e, now),
                    total_amount |-> inp[1], paid_amount |-> inp[2],
                    outstanding_amount |-> 0, status |-> "DRAFT"]
           row == BillSaved(self)
       IN IF BillInsertOk(bills, row)
          THEN /\ bills' = Append(bills, row)
               /\ result' = Call("VendorBill.save", inp[2], "ok", row)
          ELSE /\ bills' = bills
               /\ result' = Call("VendorBill.save", inp[2], "IntegrityError", row)
    /\ UNCHANGED <<now, otherVars, ledgerVars, tokenVars, cartVars, codeVars>>

\* The call of VendorBillResave, the status the caller assigned included
BillResaveOp(st) == "VendorBill.save after status = " \o st

\* The i-th bill is loaded, the caller assigns status and paid_amount, and
\* calls save()
VendorBillResave(i, st, paid) ==
    /\ i \in 1..Len(bills)
    /\ LET self == [bills[i] EXCEPT !.status = st, !.paid_amount = paid]
           row == BillSaved(self)
       IN /\ bills' = [bills EXCEPT ![i] = row]
          /\ result' = Call(BillResaveOp(st), paid, "ok", row)
    /\ UNCHANGED <<now, otherVars, ledgerVars, tokenVars, cartVars, codeVars>>

-----------------------------------------------------------------------------
(* ShoppingCart and CartItem *)

\* ShoppingCart field defaults
NewCart == [items_count |-> 0, subtotal |-> 0]

\* The (product, variant) pairs a cart can hold: two products, variant None
\* or a ProductVariant of the first
Pairs == {<<"sandal", <<>> >>, <<"sandal", <<"red">> >>, <<"boot", <<>> >>}

\* product_variant.get_price('selling_price'), or product.discounted_price
PriceOf(product, variant) ==
    IF variant # <<>> THEN 3 ELSE IF product = "sandal" THEN 2 ELSE 5

\* CartItem.save() up to super().save(): unit_price if not provided, line_total
CartItemSaved(self) ==
    LET unit_price == IF self.unit_price = 0
                      THEN PriceOf(self.product, self.product_variant)
                      ELSE self.unit_price
    IN [self EXCEPT !.unit_price = unit_price,
                    !.line_total = unit_price * self.quantity]

\* quantity is a PositiveIntegerField: CHECK (quantity >= 0)
CartItemRowOk(row) == row.quantity >= 0

\* The positions of the active items of a pair, in table order
ActiveOf(items, product, variant) ==
    {i \in 1..Len(items) : /\ items[i].product = product
                           /\ items[i].product_variant = variant
                           /\ items[i].is_active}

RECURSIVE SumLineTotals(_)
\* sum(item.line_total for item in items)
SumLineTotals(items) == IF items = <<>> THEN 0
                        ELSE items[1].line_total + SumLineTotals(Tail(items))

\* calculate_totals() that counts the removed items too
calculate_totals_AllItems(self, items) ==
    [self EXCEPT !.items_count = Len(items),
                 !.subtotal = SumLineTotals(items)]

\* ShoppingCart.calculate_totals(): the cart row it saves
calculate_totals(self, items) ==
    LET active == SelectSeq(items, LAMBDA r : r.is_active)
    IN [self EXCEPT !.items_count = Len(active),
                    !.subtotal = SumLineTotals(active)]

\* add_item() that never looks for an existing item
add_item_AlwaysCreates(items, product, variant, quantity) ==
    LET created == CartItemSaved([product |-> product, product_variant |-> variant,
                                  quantity |-> quantity, unit_price |-> 0,
                                  line_total |-> 0, is_active |-> TRUE])
    IN IF CartItemRowOk(created)
       THEN [raised |-> None, items |-> Append(items, created), item |-> created]
       ELSE [raised |-> "IntegrityError", items |-> items, item |-> created]

\* ShoppingCart.add_item() up to CartItem's super().save(): the table after it
\* and the item returned
add_item(items, product, variant, quantity) ==
    LET found == ActiveOf(items, product, variant)
        first == CHOOSE i \in found : \A j \in found : i <= j
        existing_item == CartItemSaved([items[first] EXCEPT !.quantity = @ + quantity])
        created == CartItemSaved([product |-> product, product_variant |-> variant,
                                  quantity |-> quantity, unit_price |-> 0,
                                  line_total |-> 0, is_active |-> TRUE])
    IN IF found # {}
       THEN IF CartItemRowOk(existing_item)
            THEN [raised |-> None, items |-> [items EXCEPT ![first] = existing_item],
                  item |-> existing_item]
            ELSE [raised |-> "IntegrityError", items |-> items, item |-> existing_item]
       ELSE IF CartItemRowOk(created)
            THEN [raised |-> None, items |-> Append(items, created), item |-> created]
            ELSE [raised |-> "IntegrityError", items |-> items, item |-> created]

\* cart.add_item(product, quantity, variant): the item is saved and
\* CartItem.save() ends with self.cart.calculate_totals()
CartAddItem(product, variant, quantity) ==
    /\ LET r == add_item(cartItems, product, variant, quantity)
       IN /\ Len(r.items) <= MaxItems
          /\ r.item.quantity <= MaxQuantity
          /\ cartItems' = r.items
          /\ cart' = IF r.raised = None THEN calculate_totals(cart, r.items) ELSE cart
          /\ result' = Call("add_item", quantity,
                            IF r.raised = None THEN "ok" ELSE r.raised, r.item)
    /\ UNCHANGED <<now, otherVars, ledgerVars, tokenVars, codeVars, bills>>

\* cart.remove_item(product, variant)
CartRemoveItem(product, variant) ==
    /\ cartItems' = [i \in 1..Len(cartItems) |->
                       IF i \in ActiveOf(cartItems, product, variant)
                       THEN [cartItems[i] EXCEPT !.is_active = FALSE]
                       ELSE cartItems[i]]
    /\ cart' = calculate_totals(cart, cartItems')
    /\ result' = Call("remove_item", 0, "ok", cart')
    /\ UNCHANGED <<now, otherVars, ledgerVars, tokenVars, codeVars, bills>>

\* cart.clear()
CartClear ==
    /\ cartItems' = [i \in 1..Len(cartItems) |-> [cartItems[i] EXCEPT !.is_active = FALSE]]
    /\ cart' = calculate_totals(cart, cartItems')
    /\ result' = Call("clear", 0, "ok", cart')
    /\ UNCHANGED <<now, otherVars, ledgerVars, tokenVars, codeVars, bills>>

-----------------------------------------------------------------------------
(* Email verification *)

\* User field defaults
NewUser == [is_verified |-> FALSE, email_verified_at |-> <<>>]

\* The token strings of the requests; the empty one is a missing token
TokenArgs == {"", "t1", "t2"}
\* expires_at of a new token, in days
ExpiryArgs == 0..(MaxDay + 1)

\* EmailVerificationToken.is_valid() that does not look at expires_at
token_is_valid_NoExpiry(self, day) == ~self.is_used

\* EmailVerificationToken.is_valid()
token_is_valid(self, day) == ~self.is_used /\ day < self.expires_at

\* token is unique=True
TokenInsertOk(tbl, row) == \A r \in Range(tbl) : r.token # row.token

\* EmailVerificationToken.objects.create(user=..., token=t, expires_at=e)
TokenCreate(t, e) ==
    /\ t # ""
    /\ LET row == [token |-> t, is_used |-> FALSE, expires_at |-> e]
       IN IF TokenInsertOk(tokens, row)
          THEN /\ tokens' = Append(tokens, row)
               /\ result' = Call("EmailVerificationToken.create", 0, "ok", row)
          ELSE /\ tokens' = tokens
               /\ result' = Call("EmailVerificationToken.create", 0, "IntegrityError", row)
    /\ UNCHANGED <<now, otherVars, ledgerVars, codeVars, bills, cartVars, user>>

\* EmailVerificationToken.objects.get(token=t, is_used=False): the positions
\* of the rows it matches
UnusedTokens(tbl, t) ==
    {i \in 1..Len(tbl) : tbl[i].token = t /\ ~tbl[i].is_used}

\* POST verify_email_api with request.data = {'token': t}
VerifyEmail(t) ==
    /\ LET found == UnusedTokens(tokens, t)
           i == CHOOSE j \in found : TRUE
       IN IF t = ""
          THEN /\ UNCHANGED <<user, tokens>>
               /\ result' = Call("verify_email_api", 400, "Token is required",
                                 [token |-> t])
          ELSE IF found = {}
          THEN /\ UNCHANGED <<user, tokens>>
               /\ result' = Call("verify_email_api", 400, "Invalid token",
                                 [token |-> t])
          ELSE IF token_is_valid(tokens[i], now)
          THEN /\ user' = [user EXCEPT !.is_verified = TRUE,
                                       !.email_verified_at = <<now>>]
               /\ tokens' = [tokens EXCEPT ![i].is_used = TRUE]
               /\ result' = Call("verify_email_api", 200, "Email verified successfully",
                                 [token |-> t])
          ELSE /\ UNCHANGED <<user, tokens>>
               /\ result' = Call("verify_email_api", 400, "Token has expired",
                                 [token |-> t])
    /\ UNCHANGED <<now, otherVars, ledgerVars, codeVars, bills, cartVars>>

-----------------------------------------------------------------------------
(* CustomerLoyalty *)

NewLoyalty == [points_balance |-> 0, total_points_earned |-> 0,
               total_points_redeemed |-> 0, is_active |-> TRUE,
               last_activity_date |-> <<>>]

\* What a method call did in memory: the exception it raised (or None), the
\* instance as it was handed to save(), the history entries handed to create()
Raised(self, exc) == [raised |-> exc, self |-> self, entries |-> <<>>]
Done(self, entry) == [raised |-> None, self |-> self, entries |-> <<entry>>]

\* add_points() that writes its history entry twice
add_points_Replay(self, points, day) ==
    LET new == [self EXCEPT !.points_balance = @ + points,
                            !.total_points_earned = @ + points,
                            !.last_activity_date = <<day>>]
        entry == [transaction_type |-> "EARN", points |-> points,
                  balance_after |-> new.points_balance]
    IN [raised |-> None, self |-> new, entries |-> <<entry, entry>>]

add_points(self, points, day) ==
    LET new == [self EXCEPT !.points_balance = @ + points,
                            !.total_points_earned = @ + points,
                            !.last_activity_date = <<day>>]
    IN Done(new, [transaction_type |-> "EARN", points |-> points,
                  balance_after |-> new.points_balance])

\* redeem_points() that forgets the lifetime counter
redeem_points_NoLifetime(self, points, day) ==
    IF points > self.points_balance
    THEN Raised(self, "ValueError")
    ELSE LET new == [self EXCEPT !.points_balance = @ - points,
                                 !.last_activity_date = <<day>>]
         IN Done(new, [transaction_type |-> "REDEEM", points |-> points,
                       balance_after |-> new.points_balance])

redeem_points(self, points, day) ==
    IF points > self.points_balance
    THEN Raised(self, "ValueError")
    ELSE LET new == [self EXCEPT !.points_balance = @ - points,
                                 !.total_points_redeemed = @ + points,
                                 !.last_activity_date = <<day>>]
         IN Done(new, [transaction_type |-> "REDEEM", points |-> points,
                       balance_after |-> new.points_balance])

\* PositiveIntegerField: the column carries CHECK (value >= 0)
LoyaltyRowOk(row) ==
    /\ row.points_balance >= 0
    /\ row.total_points_earned >= 0
    /\ row.total_points_redeemed >= 0

OpsDone == Len(loyaltyTxns) + Len(walletTxns) + Len(cardTxns)

\* reference_id is <<>> (None, the default of the argument) or <<id>>
Reference == <<"order">>

\* LoyaltyTransaction.reference_id is a CharField without null=True: the
\* column is NOT NULL
LoyaltyTxnInsertOk(reference_id) == reference_id # <<>>

\* A call on a freshly loaded CustomerLoyalty: the method body, self.save()
\* and LoyaltyTransaction.objects.create(), each committed on its own
LoyaltyCall(op, r, points, reference_id) ==
    /\ OpsDone < MaxOps
    /\ IF r.raised # None
       THEN /\ UNCHANGED <<loyalty, loyaltyTxns>>
            /\ result' = Call(op, points, r.raised, r.self)
       ELSE IF ~LoyaltyRowOk(r.self)
       THEN /\ UNCHANGED <<loyalty, loyaltyTxns>>
            /\ result' = Call(op, points, "IntegrityError", r.self)
       ELSE IF ~LoyaltyTxnInsertOk(reference_id)
       THEN /\ loyalty' = r.self
            /\ loyaltyTxns' = loyaltyTxns
            /\ result' = Call(op, points, "IntegrityError", r.self)
       ELSE /\ loyalty' = r.self
            /\ loyaltyTxns' = loyaltyTxns \o r.entries
            /\ result' = Call(op, points, "ok", r.self)
    /\ UNCHANGED <<now, extraVars, otherVars, wallet, walletTxns, card, cardTxns>>

LoyaltyAddPoints(points, reference_id) ==
    LoyaltyCall("add_points", add_points(loyalty, points, now), points, reference_id)

LoyaltyRedeemPoints(points, reference_id) ==
    LoyaltyCall("redeem_points", redeem_points(loyalty, points, now), points,
                reference_id)

-----------------------------------------------------------------------------
(* Wallet *)

NewWallet(b) == [balance |-> b[1], cashback_balance |-> b[2],
                 promotional_balance |-> b[3], is_active |-> TRUE,
                 is_frozen |-> FALSE, last_transaction_at |-> <<>>]

total_balance(self) ==
    self.balance + self.cashback_balance + self.promotional_balance

Min(a, b) == IF a <= b THEN a ELSE b

add_balance(self, amount, day) ==
    IF amount <= 0
    THEN Raised(self, "ValueError")
    ELSE LET new == [self EXCEPT !.balance = @ + amount,
                                 !.last_transaction_at = <<day>>]
         IN Done(new, [transaction_type |-> "TOP_UP", amount |-> amount,
                       balance_after |-> new.balance])

\* deduct_balance() that drains cashback before promotional
deduct_balance_CashbackFirst(self, amount, day) ==
    IF amount <= 0 THEN Raised(self, "ValueError")
    ELSE IF amount > total_balance(self) THEN Raised(self, "ValueError")
    ELSE LET deduct_cashback ==
                 IF amount > 0 /\ self.cashback_balance > 0
                 THEN Min(amount, self.cashback_balance) ELSE 0
             remaining1 == amount - deduct_cashback
             deduct_promotional ==
                 IF remaining1 > 0 /\ self.promotional_balance > 0
                 THEN Min(remaining1, self.promotional_balance) ELSE 0
             remaining2 == remaining1 - deduct_promotional
             new == [self EXCEPT
                       !.promotional_balance = @ - deduct_promotional,
                       !.cashback_balance = @ - deduct_cashback,
                       !.balance = IF remaining2 > 0 THEN @ - remaining2 ELSE @,
                       !.last_transaction_at = <<day>>]
         IN Done(new, [transaction_type |-> "PURCHASE", amount |-> -amount,
                       balance_after |-> total_balance(new)])

\* deduct_balance() that drains the two bonus buckets and only then finds the
\* main balance too small
deduct_balance_DrainThenFail(self, amount, day) ==
    IF amount <= 0 THEN Raised(self, "ValueError")
    ELSE LET deduct_promotional ==
                 IF self.promotional_balance > 0
                 THEN Min(amount, self.promotional_balance) ELSE 0
             remaining1 == amount - deduct_promotional
             deduct_cashback ==
                 IF remaining1 > 0 /\ self.cashback_balance > 0
                 THEN Min(remaining1, self.cashback_balance) ELSE 0
             remaining2 == remaining1 - deduct_cashback
             drained == [self EXCEPT
                           !.promotional_balance = @ - deduct_promotional,
                           !.cashback_balance = @ - deduct_cashback]
             new == [drained EXCEPT
                       !.balance = IF remaining2 > 0 THEN @ - remaining2 ELSE @,
                       !.last_transaction_at = <<day>>]
         IN IF remaining2 > self.balance
            THEN Raised(drained, "ValueError")
            ELSE Done(new, [transaction_type |-> "PURCHASE", amount |-> -amount,
                            balance_after |-> total_balance(new)])

deduct_balance(self, amount, day) ==
    IF amount <= 0 THEN Raised(self, "ValueError")
    ELSE IF amount > total_balance(self) THEN Raised(self, "ValueError")
    ELSE LET deduct_promotional ==
                 IF amount > 0 /\ self.promotional_balance > 0
                 THEN Min(amount, self.promotional_balance) ELSE 0
             remaining1 == amount - deduct_promotional
             deduct_cashback ==
                 IF remaining1 > 0 /\ self.cashback_balance > 0
                 THEN Min(remaining1, self.cashback_balance) ELSE 0
             remaining2 == remaining1 - deduct_cashback
             new == [self EXCEPT
                       !.promotional_balance = @ - deduct_promotional,
                       !.cashback_balance = @ - deduct_cashback,
                       !.balance = IF remaining2 > 0 THEN @ - remaining2 ELSE @,
                       !.last_transaction_at = <<day>>]
         IN Done(new, [transaction_type |-> "PURCHASE", amount |-> -amount,
                       balance_after |-> total_balance(new)])

TxnWidth == 8

WalletTxnsStartingWith(tbl, e, p) ==
    {r \in Range(tbl) : r.entity = e /\ StartsWith(r.transaction_id, p)}

LastWalletTxn(rows) ==
    CHOOSE r \in rows : \A q \in rows : ~LexLess(r.transaction_id, q.transaction_id)

generate_transaction_id(tbl, e, day) ==
    LET prefix == Prefix2(e) \o <<"W", "T">>
        date_str == DateStr(day)
        found == WalletTxnsStartingWith(tbl, e, prefix \o date_str)
        new_number == IF found # {}
                      THEN IntOf(LastChars(LastWalletTxn(found).transaction_id,
                                           TxnWidth)) + 1
                      ELSE 1
    IN prefix \o date_str \o Pad(new_number, TxnWidth)

\* WalletTransaction.objects.create(...): entity is left at its default
WalletTxnRow(tbl, entry, day) ==
    [entity |-> "MPSHOES",
     transaction_id |-> generate_transaction_id(tbl, "MPSHOES", day),
     transaction_type |-> entry.transaction_type,
     amount |-> entry.amount,
     balance_after |-> entry.balance_after]

\* transaction_id is unique=True
WalletTxnInsertOk(tbl, row) ==
    \A r \in Range(tbl) : r.transaction_id # row.transaction_id

\* A call on a freshly loaded Wallet: the method body, self.save() and
\* WalletTransaction.objects.create()
WalletCall(op, r, amount) ==
    /\ OpsDone < MaxOps
    /\ IF r.raised # None
       THEN /\ UNCHANGED <<wallet, walletTxns>>
            /\ result' = Call(op, amount, r.raised, r.self)
       ELSE LET row == WalletTxnRow(walletTxns, r.entries[1], now)
            IN /\ wallet' = r.self
               /\ IF WalletTxnInsertOk(walletTxns, row)
                  THEN /\ walletTxns' = Append(walletTxns, row)
                       /\ result' = Call(op, amount, "ok", r.self)
                  ELSE /\ walletTxns' = walletTxns
                       /\ result' = Call(op, amount, "IntegrityError", r.self)
    /\ UNCHANGED <<now, extraVars, otherVars, loyalty, loyaltyTxns, card, cardTxns>>

WalletAddBalance(amount) ==
    WalletCall("add_balance", add_balance(wallet, amount, now), amount)

WalletDeductBalance(amount) ==
    WalletCall("deduct_balance", deduct_balance(wallet, amount, now), amount)

-----------------------------------------------------------------------------
(* GiftCard *)

\* c = <<initial_amount, expiry_date, minimum_order_amount>>
NewGiftCard(c) == [initial_amount |-> c[1], current_balance |-> c[1],
                   expiry_date |-> c[2], gift_card_status |-> "ACTIVE",
                   minimum_order_amount |-> c[3], times_used |-> 0,
                   first_used_at |-> <<>>, last_used_at |-> <<>>]

is_valid(self, day) ==
    /\ self.gift_card_status = "ACTIVE"
    /\ self.current_balance > 0
    /\ self.expiry_date >= day

\* can_redeem() that does not compare the amount with the balance
can_redeem_NoBalanceCheck(self, amount, order, day) ==
    IF ~is_valid(self, day) THEN FALSE
    ELSE IF order # <<>> /\ order[1] < self.minimum_order_amount THEN FALSE
    ELSE TRUE

\* can_redeem() that ignores the minimum order amount
can_redeem_NoMinimum(self, amount, order, day) ==
    IF ~is_valid(self, day) THEN FALSE
    ELSE IF amount > self.current_balance THEN FALSE
    ELSE TRUE

\* order is <<>> (None) or <<subtotal>>
can_redeem(self, amount, order, day) ==
    IF ~is_valid(self, day) THEN FALSE
    ELSE IF amount > self.current_balance THEN FALSE
    ELSE IF order # <<>> /\ order[1] < self.minimum_order_amount THEN FALSE
    ELSE TRUE

\* redeem() that leaves the status of an exhausted card alone
redeem_KeepsStatus(self, amount, order, day) ==
    IF ~can_redeem(self, amount, order, day)
    THEN Raised(self, "ValueError")
    ELSE LET new == [self EXCEPT
                       !.current_balance = @ - amount,
                       !.times_used = @ + 1,
                       !.first_used_at = IF @ = <<>> THEN <<day>> ELSE @,
                       !.last_used_at = <<day>>]
         IN Done(new, [transaction_type |-> "REDEMPTION", amount |-> -amount,
                       balance_after |-> new.current_balance, order |-> order])

redeem(self, amount, order, day) ==
    IF ~can_redeem(self, amount, order, day)
    THEN Raised(self, "ValueError")
    ELSE LET balance == self.current_balance - amount
             new == [self EXCEPT
                       !.current_balance = balance,
                       !.times_used = @ + 1,
                       !.first_used_at = IF @ = <<>> THEN <<day>> ELSE @,
                       !.last_used_at = <<day>>,
                       !.gift_card_status = IF balance <= 0 THEN "REDEEMED" ELSE @]
         IN Done(new, [transaction_type |-> "REDEMPTION", amount |-> -amount,
                       balance_after |-> new.current_balance, order |-> order])

\* A call on a freshly loaded GiftCard: redeem(), self.save() and
\* GiftCardTransaction.objects.create()
GiftCardRedeem(amount, order) ==
    /\ OpsDone < MaxOps
    /\ LET r == redeem(card, amount, order, now)
       IN IF r.raised # None
          THEN /\ UNCHANGED <<card, cardTxns>>
               /\ result' = Call("redeem", amount, r.raised, r.self)
          ELSE /\ card' = r.self
               /\ cardTxns' = cardTxns \o r.entries
               /\ result' = Call("redeem", amount, "ok", r.self)
    /\ UNCHANGED <<now, extraVars, otherVars, loyalty, loyaltyTxns, wallet, walletTxns>>

-----------------------------------------------------------------------------
(* GiftCard codes: one GiftCard().save() call at a time, every draw and    *)
(* every database query being one step, while cards with a code of the     *)
(* caller's are stored                                                      *)

\* The strings random.choices(string.ascii_uppercase + string.digits, k=12)
\* can return, joined
Codes == 1..NumCodes

IdleCode == [pc |-> "idle", code |-> <<>>]

\* the test of generate_code() that takes every code for a free one
CodeIsFree_Always(codes, code) == TRUE

\* not GiftCard.objects.filter(code=code).exists()
CodeIsFree(codes, code) == code \notin codes

\* GiftCard().save(): code is empty, generate_code() is entered
GiftCardSave ==
    /\ codeReq.pc = "idle"
    /\ codeReq' = [pc |-> "looping", code |-> <<>>]
    /\ UNCHANGED <<now, otherVars, ledgerVars, tokenVars, cartVars, bills, giftCodes, result>>

\* generate_code(): code = ''.join(random.choices(...)) draws c
GenerateCodeDraw(c) ==
    /\ codeReq.pc = "looping"
    /\ codeReq' = [pc |-> "drawn", code |-> <<c>>]
    /\ UNCHANGED <<now, otherVars, ledgerVars, tokenVars, cartVars, bills, giftCodes, result>>

\* generate_code(): the existence query; return code, or the next iteration
GenerateCodeCheck ==
    /\ codeReq.pc = "drawn"
    /\ codeReq' = [codeReq EXCEPT !.pc = IF CodeIsFree(giftCodes, codeReq.code[1])
                                         THEN "returned" ELSE "looping"]
    /\ UNCHANGED <<now, otherVars, ledgerVars, tokenVars, cartVars, bills, giftCodes, result>>

\* save(): super().save(), the INSERT; code is unique=True
GiftCardInsert ==
    /\ codeReq.pc = "returned"
    /\ LET code == codeReq.code[1]
       IN IF code \notin giftCodes
          THEN /\ giftCodes' = giftCodes \cup {code}
               /\ result' = Call("GiftCard.save", 0, "ok", [code |-> code])
          ELSE /\ giftCodes' = giftCodes
               /\ result' = Call("GiftCard.save", 0, "IntegrityError", [code |-> code])
    /\ codeReq' = IdleCode
    /\ UNCHANGED <<now, otherVars, ledgerVars, tokenVars, cartVars, bills>>

\* GiftCard(code=c).save() of another request: the code is kept as given
GiftCardSaveGiven(c) ==
    /\ IF c \notin giftCodes
       THEN /\ giftCodes' = giftCodes \cup {c}
            /\ result' = Call("GiftCard.save(code)", 0, "ok", [code |-> c])
       ELSE /\ giftCodes' = giftCodes
            /\ result' = Call("GiftCard.save(code)", 0, "IntegrityError", [code |-> c])
    /\ UNCHANGED <<now, otherVars, ledgerVars, tokenVars, cartVars, bills, codeReq>>

-----------------------------------------------------------------------------
(* Debits by concurrent requests, each on the instance it loaded itself:   *)
(* every database query is one step                                        *)

IdleDebit == [pc |-> "idle", account |-> None, self |-> <<>>, amount |-> 0,
              entries |-> <<>>]

\* CustomerLoyalty.objects.get(...)
LoyaltyLoad(w) ==
    /\ debitReq[w].pc = "idle"
    /\ debitReq' = [debitReq EXCEPT ![w] =
                      [IdleDebit EXCEPT !.pc = "loaded", !.account = "loyalty",
                                        !.self = loyalty]]
    /\ UNCHANGED <<now, extraVars, seqVars, ledgerVars, result>>

\* instance.redeem_points(points) up to and including self.save(), which
\* writes every field of the instance
LoyaltyRedeemSave(w, points) ==
    /\ debitReq[w].pc = "loaded"
    /\ debitReq[w].account = "loyalty"
    /\ LET r == redeem_points(debitReq[w].self, points, now)
           outcome == IF r.raised # None THEN r.raised
                      ELSE IF ~LoyaltyRowOk(r.self) THEN "IntegrityError"
                      ELSE "saved"
       IN /\ debitReq' = [debitReq EXCEPT ![w].pc = outcome, ![w].self = r.self,
                                          ![w].amount = points,
                                          ![w].entries = r.entries]
          /\ loyalty' = IF outcome = "saved" THEN r.self ELSE loyalty
          /\ result' = IF outcome = "saved" THEN result
                       ELSE Call("redeem_points", points, outcome, r.self)
    /\ UNCHANGED <<now, extraVars, seqVars, loyaltyTxns, wallet, walletTxns, card, cardTxns>>

\* LoyaltyTransaction.objects.create(...)
LoyaltyCreateTxn(w) ==
    /\ debitReq[w].pc = "saved"
    /\ debitReq[w].account = "loyalty"
    /\ loyaltyTxns' = loyaltyTxns \o debitReq[w].entries
    /\ debitReq' = [debitReq EXCEPT ![w].pc = "done"]
    /\ result' = Call(IF debitReq[w].entries[1].transaction_type = "EARN"
                       THEN "add_points" ELSE "redeem_points",
                       debitReq[w].amount, "ok", debitReq[w].self)
    /\ UNCHANGED <<now, extraVars, seqVars, loyalty, wallet, walletTxns, card, cardTxns>>

\* Wallet.objects.get(...)
WalletLoad(w) ==
    /\ debitReq[w].pc = "idle"
    /\ debitReq' = [debitReq EXCEPT ![w] =
                      [IdleDebit EXCEPT !.pc = "loaded", !.account = "wallet",
                                        !.self = wallet]]
    /\ UNCHANGED <<now, extraVars, seqVars, ledgerVars, result>>

\* instance.deduct_balance(amount) up to and including self.save()
WalletDeductSave(w, amount) ==
    /\ debitReq[w].pc = "loaded"
    /\ debitReq[w].account = "wallet"
    /\ LET r == deduct_balance(debitReq[w].self, amount, now)
           outcome == IF r.raised # None THEN r.raised ELSE "saved"
       IN /\ debitReq' = [debitReq EXCEPT ![w].pc = outcome, ![w].self = r.self,
                                          ![w].amount = amount,
                                          ![w].entries = r.entries]
          /\ wallet' = IF outcome = "saved" THEN r.self ELSE wallet
          /\ result' = IF outcome = "saved" THEN result
                       ELSE Call("deduct_balance", amount, outcome, r.self)
    /\ UNCHANGED <<now, extraVars, seqVars, loyalty, loyaltyTxns, walletTxns, card, cardTxns>>

\* WalletTransaction.save(): generate_transaction_id()
WalletGenTxnId(w) ==
    /\ debitReq[w].pc = "saved"
    /\ debitReq[w].account = "wallet"
    /\ debitReq' = [debitReq EXCEPT
                      ![w].pc = "numbered",
                      ![w].entries = <<WalletTxnRow(walletTxns, @[1], now)>>]
    /\ UNCHANGED <<now, extraVars, seqVars, ledgerVars, result>>

\* WalletTransaction.save(): super().save(), the INSERT
WalletInsertTxn(w) ==
    /\ debitReq[w].pc = "numbered"
    /\ LET row == debitReq[w].entries[1]
           ok == WalletTxnInsertOk(walletTxns, row)
       IN /\ walletTxns' = IF ok THEN Append(walletTxns, row) ELSE walletTxns
          /\ debitReq' = [debitReq EXCEPT ![w].pc = IF ok THEN "done"
                                                    ELSE "IntegrityError"]
          /\ result' = Call(IF row.transaction_type = "TOP_UP"
                             THEN "add_balance" ELSE "deduct_balance",
                             debitReq[w].amount,
                             IF ok THEN "ok" ELSE "IntegrityError", debitReq[w].self)
    /\ UNCHANGED <<now, extraVars, seqVars, loyalty, loyaltyTxns, wallet, card, cardTxns>>

-----------------------------------------------------------------------------
(* Credits by concurrent requests, each on the instance it loaded itself *)

\* instance.add_points(points) up to and including self.save()
LoyaltyAddSave(w, points) ==
    /\ debitReq[w].pc = "loaded"
    /\ debitReq[w].account = "loyalty"
    /\ LET r == add_points(debitReq[w].self, points, now)
           outcome == IF ~LoyaltyRowOk(r.self) THEN "IntegrityError" ELSE "saved"
       IN /\ debitReq' = [debitReq EXCEPT ![w].pc = outcome, ![w].self = r.self,
                                          ![w].amount = points,
                                          ![w].entries = r.entries]
          /\ loyalty' = IF outcome = "saved" THEN r.self ELSE loyalty
          /\ result' = IF outcome = "saved" THEN result
                       ELSE Call("add_points", points, outcome, r.self)
    /\ UNCHANGED <<now, extraVars, seqVars, loyaltyTxns, wallet, walletTxns, card, cardTxns>>

\* instance.add_balance(amount) up to and including self.save()
WalletAddSave(w, amount) ==
    /\ debitReq[w].pc = "loaded"
    /\ debitReq[w].account = "wallet"
    /\ LET r == add_balance(debitReq[w].self, amount, now)
           outcome == IF r.raised # None THEN r.raised ELSE "saved"
       IN /\ debitReq' = [debitReq EXCEPT ![w].pc = outcome, ![w].self = r.self,
                                          ![w].amount = amount,
                                          ![w].entries = r.entries]
          /\ wallet' = IF outcome = "saved" THEN r.self ELSE wallet
          /\ result' = IF outcome = "saved" THEN result
                       ELSE Call("add_balance", amount, outcome, r.self)
    /\ UNCHANGED <<now, extraVars, seqVars, loyalty, loyaltyTxns, walletTxns, card, cardTxns>>

-----------------------------------------------------------------------------
(* Inputs of the ledger calls *)

PointsArgs == {-1, 0, 1, 2}
WalletArgs == {-2, 0, 1, 12}
CardArgs == {-1, 0, 1, 3}
\* order=None, or an order with subtotal 1
OrderArgs == {<<>>, <<1>>}
\* <<balance, cashback_balance, promotional_balance>> of the wallet
WalletInits == {<<1, 1, 1>>, <<100, 5, 10>>}
\* <<initial_amount, expiry_date, minimum_order_amount>> of the card: one
\* usable for any order, one with a minimum order amount, one that expired
\* yesterday
CardInits == {<<3, 0, 0>>, <<3, 0, 2>>, <<3, -1, 0>>}
\* The concurrent debits: the points the account starts with, the wallet's
\* buckets, the amounts debited
RacePoints == 2
RaceWallet == <<1, 1, 0>>
DebitArgs == {1, 2}
\* The amounts credited concurrently
CreditArgs == {1, 2}
\* The quantity argument of add_item
QuantityArgs == {-1, 1, 2}
\* The reference_id of a loyalty call: left at None, or given
RefArgs == {<<>>, Reference}

-----------------------------------------------------------------------------
vars == <<now, sales, orders, orderReq, vendors, loyalty, loyaltyTxns, wallet, walletTxns,
          card, cardTxns, debitReq, extraVars, result>>

InitSeqVars ==
    /\ sales = <<>>
    /\ orders = <<>>
    /\ orderReq = [w \in Requests |-> IdleReq]
    /\ vendors = <<>>
    /\ debitReq = [w \in Requests |-> IdleDebit]
    /\ giftCodes = {}
    /\ codeReq = IdleCode
    /\ bills = <<>>
    /\ cart = NewCart
    /\ cartItems = <<>>
    /\ user = NewUser
    /\ tokens = <<>>

InitLedgerVars(wallets, cards) ==
    /\ loyalty = NewLoyalty
    /\ loyaltyTxns = <<>>
    /\ wallet \in {NewWallet(b) : b \in wallets}
    /\ walletTxns = <<>>
    /\ card \in {NewGiftCard(c) : c \in cards}
    /\ cardTxns = <<>>

NoCall == Call(None, 0, None, <<>>)

\* The accounts as they were created, no sale and no order yet
Init ==
    /\ now = 0
    /\ InitSeqVars
    /\ InitLedgerVars(WalletInits, CardInits)
    /\ result = NoCall

\* The same with an empty wallet and one gift card
InitSeq ==
    /\ now = 0
    /\ InitSeqVars
    /\ InitLedgerVars({<<0, 0, 0>>}, {<<3, 0, 0>>})
    /\ result = NoCall

\* Calls on the ledger accounts, one after the other, the loyalty calls with
\* a reference_id
Next ==
    \/ \E p \in PointsArgs : LoyaltyAddPoints(p, Reference)
    \/ \E p \in PointsArgs : LoyaltyRedeemPoints(p, Reference)
    \/ \E a \in WalletArgs : WalletAddBalance(a)
    \/ \E a \in WalletArgs : WalletDeductBalance(a)
    \/ \E a \in CardArgs, o \in OrderArgs : GiftCardRedeem(a, o)

Spec == Init /\ [][Next]_vars

\* Sequential saves
NextSeq ==
    \/ \E e \in Entities, inp \in SaleInputs : SaleSave(e, inp)
    \/ \E e \in Entities, id \in Uuids : OrderSave(e, id)
    \/ Tick

SpecSeq == InitSeq /\ [][NextSeq]_vars

\* Concurrent Order.save() calls
NextOrderRace ==
    \/ \E w \in Requests, e \in Entities, id \in Uuids : OrderGenNumber(w, e, id)
    \/ \E w \in Requests : OrderGenDisplay(w)
    \/ \E w \in Requests : OrderInsert(w)
    \/ Tick

SpecOrderRace == InitSeq /\ [][NextOrderRace]_vars

\* A loyalty account that earned RacePoints points, a wallet with something in
\* each bucket, and requests that debit them concurrently
InitDebitRace ==
    /\ now = 0
    /\ InitSeqVars
    /\ loyalty = add_points(NewLoyalty, RacePoints, 0).self
    /\ loyaltyTxns = add_points(NewLoyalty, RacePoints, 0).entries
    /\ wallet = NewWallet(RaceWallet)
    /\ walletTxns = <<>>
    /\ card = NewGiftCard(<<3, 0, 0>>)
    /\ cardTxns = <<>>
    /\ result = NoCall

NextDebitRace ==
    \/ \E w \in Requests : LoyaltyLoad(w)
    \/ \E w \in Requests, p \in DebitArgs : LoyaltyRedeemSave(w, p)
    \/ \E w \in Requests : LoyaltyCreateTxn(w)
    \/ \E w \in Requests : WalletLoad(w)
    \/ \E w \in Requests, a \in DebitArgs : WalletDeductSave(w, a)
    \/ \E w \in Requests : WalletGenTxnId(w)
    \/ \E w \in Requests : WalletInsertTxn(w)

SpecDebitRace == InitDebitRace /\ [][NextDebitRace]_vars

\* The same accounts, credited concurrently
NextCreditRace ==
    \/ \E w \in Requests : LoyaltyLoad(w)
    \/ \E w \in Requests, p \in CreditArgs : LoyaltyAddSave(w, p)
    \/ \E w \in Requests : LoyaltyCreateTxn(w)
    \/ \E w \in Requests : WalletLoad(w)
    \/ \E w \in Requests, a \in CreditArgs : WalletAddSave(w, a)
    \/ \E w \in Requests : WalletGenTxnId(w)
    \/ \E w \in Requests : WalletInsertTxn(w)

SpecCreditRace == InitDebitRace /\ [][NextCreditRace]_vars

\* Vendors created, with and without a code of the caller, and soft-deleted
NextVendor ==
    \/ \E e \in Entities, code \in {<<>>} \cup GivenVendorCodes : VendorSave(e, code)
    \/ \E i \in 1..MaxRows : VendorDelete(i)

SpecVendor == InitSeq /\ [][NextVendor]_vars

\* Vendors created after a vendor that holds the largest code of the width
NextOverflow ==
    \/ \E e \in Entities : VendorSave(e, <<>>)
    \/ \E e \in Entities : VendorSave(e, LargestVendorCode(e))
    \/ \E i \in 1..MaxRows : VendorDelete(i)

SpecOverflow == InitSeq /\ [][NextOverflow]_vars

\* A frozen and an inactive wallet, and an inactive loyalty account that
\* holds RacePoints points
InitFrozen ==
    /\ now = 0
    /\ InitSeqVars
    /\ loyalty = [add_points(NewLoyalty, RacePoints, 0).self EXCEPT !.is_active = FALSE]
    /\ loyaltyTxns = add_points(NewLoyalty, RacePoints, 0).entries
    /\ wallet \in {[NewWallet(b) EXCEPT !.is_frozen = TRUE] : b \in WalletInits}
                 \cup {[NewWallet(b) EXCEPT !.is_active = FALSE] : b \in WalletInits}
    /\ walletTxns = <<>>
    /\ card = NewGiftCard(<<3, 0, 0>>)
    /\ cardTxns = <<>>
    /\ result = NoCall

SpecFrozen == InitFrozen /\ [][Next]_vars

\* Loyalty calls with and without a reference_id, and wallet calls; the
\* points of the account are capped
NextAtomic ==
    \/ \E p \in PointsArgs, ref \in RefArgs :
          /\ loyalty.total_points_earned + loyalty.total_points_redeemed < MaxPoints
          /\ LoyaltyAddPoints(p, ref)
    \/ \E p \in PointsArgs, ref \in RefArgs :
          /\ loyalty.total_points_earned + loyalty.total_points_redeemed < MaxPoints
          /\ LoyaltyRedeemPoints(p, ref)
    \/ \E a \in WalletArgs : WalletAddBalance(a)
    \/ \E a \in WalletArgs : WalletDeductBalance(a)

SpecAtomic == InitSeq /\ [][NextAtomic]_vars

\* Gift cards created with and without a code of the caller's
NextCode ==
    \/ GiftCardSave
    \/ \E c \in Codes : GenerateCodeDraw(c)
    \/ GenerateCodeCheck
    \/ GiftCardInsert
    \/ \E c \in Codes : GiftCardSaveGiven(c)

\* The draws are fair: a loop that goes on draws every code again and again,
\* and a call that has drawn goes on to its query
FairDraws ==
    /\ WF_vars(GenerateCodeCheck)
    /\ \A c \in Codes : SF_vars(GenerateCodeDraw(c))

SpecCode == InitSeq /\ [][NextCode]_vars /\ FairDraws

\* Sales and vendor bills of one entity, saved, and saved again after the
\* caller assigned a status and a paid amount
NextStatus ==
    \/ \E inp \in SaleInputs :
          /\ Len(sales) + Len(bills) < MaxRows
          /\ SaleSave("MPSHOES", inp)
    \/ \E i \in 1..MaxRows, st \in SaleStatuses, paid \in PaidArgs :
          SaleResave(i, st, paid)
    \/ \E inp \in BillInputs : VendorBillSave("MPSHOES", inp)
    \/ \E i \in 1..MaxRows, st \in BillStatuses, paid \in PaidArgs :
          VendorBillResave(i, st, paid)

SpecStatus == InitSeq /\ [][NextStatus]_vars

\* The calls on one shopping cart, one after the other
NextCart ==
    \/ \E pv \in Pairs, q \in QuantityArgs : CartAddItem(pv[1], pv[2], q)
    \/ \E pv \in Pairs : CartRemoveItem(pv[1], pv[2])
    \/ CartClear

SpecCart == InitSeq /\ [][NextCart]_vars

\* Tokens issued to one user and presented to verify_email_api, request after
\* request, while time passes
NextVerify ==
    \/ \E t \in TokenArgs, e \in ExpiryArgs : TokenCreate(t, e)
    \/ \E t \in TokenArgs : VerifyEmail(t)
    \/ Tick

SpecVerify == InitSeq /\ [][NextVerify]_vars

-----------------------------------------------------------------------------
(* Properties *)

RECURSIVE SumOf(_, _)
\* The sum of f[x] over the finite set S
SumOf(f, S) == IF S = {} THEN 0
               ELSE LET x == CHOOSE y \in S : TRUE
                    IN f[x] + SumOf(f, S \ {x})

\* C1: once the concurrent Order.save() calls of one entity on one date have
\* all ended, each of them has stored its order and the stored order numbers
\* are pairwise distinct.
C1_ConcurrentSavesDistinct ==
    LET ended == \A w \in Requests : orderReq[w].pc \in {"saved", "IntegrityError"}
        sameScope == \A v, w \in Requests :
                        /\ orderReq[v].entity = orderReq[w].entity
                        /\ orderReq[v].day = orderReq[w].day
        stored == {orderReq[w].order_number :
                      w \in {v \in Requests : orderReq[v].pc = "saved"}}
    IN (ended /\ sameScope) =>
          /\ \A w \in Requests : orderReq[w].pc = "saved"
          /\ stored = {r.order_number : r \in Range(orders)}
          /\ Cardinality(stored) = NumRequests

\* The requests whose debit of the account was written by self.save()
Debited(account) ==
    {w \in Requests : /\ debitReq[w].account = account
                      /\ debitReq[w].pc \in {"saved", "numbered", "done",
                                             "IntegrityError"}}

DebitAmount == [w \in Requests |-> debitReq[w].amount]

\* C2: the debits of one account that succeeded, each on its own instance,
\* never sum to more than the balance the account started with.
C2_ConcurrentDebitsCovered ==
    /\ SumOf(DebitAmount, Debited("loyalty")) <= RacePoints
    /\ SumOf(DebitAmount, Debited("wallet")) <= total_balance(NewWallet(RaceWallet))

SalePrefix(e, d) == Prefix2(e) \o <<"S">> \o DateStr(d)
OrderPrefix(e, d) == Prefix2(e) \o <<"O">> \o DateStr(d)

\* The rows of one scope, in the order they were created
SalesOfScope(e, d) ==
    SelectSeq(sales, LAMBDA r : r.entity = e /\ StartsWith(r.sale_number, SalePrefix(e, d)))
OrdersOfScope(e, d) ==
    SelectSeq(orders, LAMBDA r : r.entity = e /\ StartsWith(r.order_number, OrderPrefix(e, d)))

\* C3: sequential saves never fail on a duplicate, and the k-th identifier of
\* a scope (entity, category, date) is the prefix followed by k, zero-padded to
\* the width of the category.
C3_SequentialIdentifiers ==
    /\ result.outcome # "IntegrityError"
    /\ \A e \in Entities, d \in Days :
          /\ \A k \in 1..Len(SalesOfScope(e, d)) :
                SalesOfScope(e, d)[k].sale_number = SalePrefix(e, d) \o Pad(k, SaleWidth)
          /\ \A k \in 1..Len(OrdersOfScope(e, d)) :
                OrdersOfScope(e, d)[k].order_number = OrderPrefix(e, d) \o Pad(k, OrderWidth)

RECURSIVE SumPoints(_)
\* The sum of the points fields of LoyaltyTransaction rows
SumPoints(txns) == IF txns = <<>> THEN 0
                   ELSE txns[1].points + SumPoints(Tail(txns))

\* C4: points_balance is the sum of the points of the account's
\* LoyaltyTransaction rows, a redemption being stored with negative points.
C4_BalanceIsSumOfEntries == loyalty.points_balance = SumPoints(loyaltyTxns)

\* C5: points_balance = total_points_earned - total_points_redeemed after every
\* add_points and redeem_points call.
C5_BalanceIsEarnedMinusRedeemed ==
    loyalty.points_balance = loyalty.total_points_earned - loyalty.total_points_redeemed

C5_Witness ==
    /\ result.op = "redeem_points"
    /\ result.outcome = "ok"
    /\ loyalty.total_points_redeemed > 0
    /\ loyalty.points_balance > 0

\* What a call that raised must leave behind: the rows, the histories and the
\* instance it ran on (held in result.self) as they were
Untouched(account) ==
    /\ UNCHANGED ledgerVars
    /\ result'.self = account

\* C6: no balance is ever negative, and a debit (redeem_points,
\* deduct_balance, GiftCard.redeem) of more than the available balance raises
\* ValueError and leaves the account and its history as they were.
C6_NoOverdraft ==
    /\ [](/\ loyalty.points_balance >= 0
          /\ wallet.balance >= 0
          /\ wallet.cashback_balance >= 0
          /\ wallet.promotional_balance >= 0
          /\ card.current_balance >= 0)
    /\ [][/\ (result'.op = "redeem_points" /\ result'.amount > loyalty.points_balance)
                => (result'.outcome = "ValueError" /\ Untouched(loyalty))
          /\ (result'.op = "deduct_balance" /\ result'.amount > total_balance(wallet))
                => (result'.outcome = "ValueError" /\ Untouched(wallet))
          /\ (result'.op = "redeem" /\ result'.amount > card.current_balance)
                => (result'.outcome = "ValueError" /\ Untouched(card))]_vars

\* A gift card redemption of more than is left on a valid card was refused
C6_Witness ==
    /\ result.op = "redeem"
    /\ result.outcome = "ValueError"
    /\ is_valid(card, now)
    /\ result.amount > card.current_balance
    /\ card.current_balance < card.initial_amount

LedgerOps == {"add_points", "redeem_points", "add_balance", "deduct_balance", "redeem"}

\* C7: a credit or debit call with a non-positive amount raises.
C7_NonPositiveRejected ==
    (result.op \in LedgerOps /\ result.amount <= 0) => result.outcome # "ok"

\* C8: deduct_balance(a) with 0 < a <= total_balance succeeds and takes
\* min(a, promotional) from the promotional balance, min(rest, cashback) from
\* the cashback balance and what is left from the main balance; no bucket goes
\* negative and the total drops by a.
C8_DrainOrder ==
    [][(/\ result'.op = "deduct_balance"
        /\ 0 < result'.amount
        /\ result'.amount <= total_balance(wallet))
       => LET a == result'.amount
              p == Min(a, wallet.promotional_balance)
              c == Min(a - p, wallet.cashback_balance)
          IN /\ result'.outcome = "ok"
             /\ wallet'.promotional_balance = wallet.promotional_balance - p
             /\ wallet'.cashback_balance = wallet.cashback_balance - c
             /\ wallet'.balance = wallet.balance - (a - p - c)
             /\ total_balance(wallet') = total_balance(wallet) - a
             /\ wallet'.promotional_balance >= 0
             /\ wallet'.cashback_balance >= 0
             /\ wallet'.balance >= 0]_vars

\* promotional=10, cashback=5, main=100 debited by 12 is 0, 3, 100
C8_Witness ==
    /\ result.op = "deduct_balance"
    /\ result.amount = 12
    /\ result.outcome = "ok"
    /\ Len(walletTxns) = 1
    /\ wallet.promotional_balance = 0
    /\ wallet.cashback_balance = 3
    /\ wallet.balance = 100

\* C9: deduct_balance of more than total_balance raises ValueError; the
\* wallet row, the instance and the WalletTransaction table are as before.
C9_AllOrNothing ==
    [][(result'.op = "deduct_balance" /\ result'.amount > total_balance(wallet))
       => /\ result'.outcome = "ValueError"
          /\ wallet' = wallet
          /\ result'.self = wallet
          /\ walletTxns' = walletTxns]_vars

\* A debit of 12 was refused by a wallet that holds less, in several buckets
C9_Witness ==
    /\ result.op = "deduct_balance"
    /\ result.outcome = "ValueError"
    /\ result.amount > total_balance(wallet)
    /\ wallet.promotional_balance > 0
    /\ wallet.balance > 0

\* C10: a redeem that brings current_balance to zero sets gift_card_status to
\* REDEEMED; a REDEEMED card stays REDEEMED, and every redeem of a positive
\* amount on it raises and leaves the card and its history as they were.
C10_RedeemedIsTerminal ==
    [][/\ (result'.op = "redeem" /\ result'.outcome = "ok"
              /\ card'.current_balance = 0)
          => card'.gift_card_status = "REDEEMED"
       /\ card.gift_card_status = "REDEEMED"
          => /\ card'.gift_card_status = "REDEEMED"
             /\ (result'.op = "redeem" /\ result'.amount > 0)
                => /\ result'.outcome = "ValueError"
                   /\ card' = card
                   /\ result'.self = card
                   /\ cardTxns' = cardTxns]_vars

\* A redemption was refused by a card that had been redeemed down to zero
C10_Witness ==
    /\ card.gift_card_status = "REDEEMED"
    /\ card.current_balance = 0
    /\ card.times_used > 0
    /\ result.op = "redeem"
    /\ result.amount > 0
    /\ result.outcome = "ValueError"

\* C11: GiftCard.redeem returns only for an ACTIVE card that has not expired,
\* an amount within current_balance and, when an order is given, an order
\* whose subtotal reaches minimum_order_amount; a redeem that raises leaves
\* the card, the instance and the history as they were.
C11_RedeemPreconditions ==
    [][result'.op = "redeem" =>
         IF result'.outcome = "ok"
         THEN /\ card.gift_card_status = "ACTIVE"
              /\ card.expiry_date >= now
              /\ result'.amount <= card.current_balance
              /\ Len(cardTxns') = Len(cardTxns) + 1
              /\ LET order == cardTxns'[Len(cardTxns')].order
                 IN order # <<>> => order[1] >= card.minimum_order_amount
         ELSE /\ card' = card
              /\ result'.self = card
              /\ cardTxns' = cardTxns]_vars

\* A valid card refused an amount it holds: the order was below its minimum
C11_Witness ==
    /\ result.op = "redeem"
    /\ result.outcome = "ValueError"
    /\ is_valid(card, now)
    /\ 0 < result.amount
    /\ result.amount <= card.current_balance
    /\ card.minimum_order_amount > 0

\* C12: a debit of a positive amount from a frozen or inactive wallet, or from
\* an inactive loyalty account, does not succeed.
C12_FrozenDebitRejected ==
    result.amount > 0 =>
        /\ (result.op = "deduct_balance" /\ (wallet.is_frozen \/ ~wallet.is_active))
              => result.outcome # "ok"
        /\ (result.op = "redeem_points" /\ ~loyalty.is_active)
              => result.outcome # "ok"

\* C13: a vendor code that generate_vendor_code returned is held by no row of
\* its entity, soft-deleted rows included, other than the row save() has just
\* stored with it.
C13_AllocatedCodeIsNew ==
    (result.op = "Vendor.save" /\ result.outcome # "ValueError") =>
        \A i \in 1..Len(vendors) :
            (/\ vendors[i].entity = result.self.entity
             /\ vendors[i].vendor_code = result.self.vendor_code)
            => (result.outcome = "ok" /\ i = Len(vendors))

\* C14: a vendor code generated for one entity is never the code of a vendor
\* of the other entity.
C14_TenantsNeverCollide ==
    (result.op = "Vendor.save" /\ result.outcome # "ValueError") =>
        \A r \in Range(vendors) :
            r.entity # result.self.entity => r.vendor_code # result.self.vendor_code

\* C15: after a call that returned, the balance_after of the entry it created
\* is the balance of the account: total_balance for a wallet, points_balance
\* for a loyalty account, current_balance for a gift card.
C15_BalanceAfterIsBalance ==
    result.outcome = "ok" =>
        /\ result.op \in {"add_balance", "deduct_balance"}
              => walletTxns[Len(walletTxns)].balance_after = total_balance(wallet)
        /\ result.op \in {"add_points", "redeem_points"}
              => loyaltyTxns[Len(loyaltyTxns)].balance_after = loyalty.points_balance
        /\ result.op = "redeem"
              => cardTxns[Len(cardTxns)].balance_after = card.current_balance

\* C16: no call changes the stored balance of an account without adding the
\* history entry of the change.
C16_BalanceAndEntryTogether ==
    [][/\ loyalty'.points_balance # loyalty.points_balance
          => Len(loyaltyTxns') = Len(loyaltyTxns) + 1
       /\ total_balance(wallet') # total_balance(wallet)
          => Len(walletTxns') = Len(walletTxns) + 1]_vars

\* The requests that ran on an instance of the account
RequestsOn(account) == {w \in Requests : debitReq[w].account = account}

\* C17: once concurrent credits of one account have all returned, the stored
\* balance and the lifetime total have grown by the sum of the credits.
C17_ConcurrentCreditsAllCounted ==
    (\A w \in Requests : debitReq[w].pc = "done") =>
        /\ loyalty.points_balance
              = RacePoints + SumOf(DebitAmount, RequestsOn("loyalty"))
        /\ loyalty.total_points_earned
              = RacePoints + SumOf(DebitAmount, RequestsOn("loyalty"))
        /\ wallet.balance
              = NewWallet(RaceWallet).balance + SumOf(DebitAmount, RequestsOn("wallet"))

\* C18: total_points_earned and total_points_redeemed never decrease.
C18_AccumulatorsMonotone ==
    [][/\ loyalty'.total_points_earned >= loyalty.total_points_earned
       /\ loyalty'.total_points_redeemed >= loyalty.total_points_redeemed]_vars

\* The history h2 is the history h1 with one entry appended
OneAppended(h1, h2) ==
    /\ Len(h2) = Len(h1) + 1
    /\ SubSeq(h2, 1, Len(h1)) = h1

\* C19: a credit or debit that returns appends exactly one entry to the
\* history of its account; every other history, and every history after a
\* call that raised, is as it was.
C19_HistoryAppendOnly ==
    [][LET ok == result'.outcome = "ok"
       IN /\ IF ok /\ result'.op \in {"add_points", "redeem_points"}
             THEN OneAppended(loyaltyTxns, loyaltyTxns')
             ELSE loyaltyTxns' = loyaltyTxns
          /\ IF ok /\ result'.op \in {"add_balance", "deduct_balance"}
             THEN OneAppended(walletTxns, walletTxns')
             ELSE walletTxns' = walletTxns
          /\ IF ok /\ result'.op = "redeem"
             THEN OneAppended(cardTxns, cardTxns')
             ELSE cardTxns' = cardTxns]_vars

\* Three calls returned, one on each account: each history has its one entry
C19_Witness ==
    /\ result.outcome = "ok"
    /\ Len(loyaltyTxns) = 1
    /\ Len(walletTxns) = 1
    /\ Len(cardTxns) = 1

\* C20: when the highest vendor code of the prefix has a suffix that is no
\* number, save() does not raise ValueError and the code it generates is the
\* prefix followed by 1, zero-padded.
C20_UnparsableFallsBackToOne ==
    [][LET e == result'.self.entity
           prefix == Prefix2(e) \o <<"V">>
           found == VendorsStartingWith(vendors, e, prefix)
       IN (/\ result'.op = "Vendor.save"
           /\ found # {}
           /\ ~IsDecimal(AllFrom(LastVendor(found).vendor_code, 4)))
          => /\ result'.outcome # "ValueError"
             /\ result'.self.vendor_code = prefix \o Pad(1, VendorWidth)]_vars

\* C21: when orders of one entity only have been created one after the other
\* through Order.save(), every save has stored its order and the k-th order
\* (k = 0, 1, 2, ...) has display_id = entity[:2] + str(1000 + k).
C21_DisplayIdsCountUp ==
    (/\ result.op = "Order.save"
     /\ \A r \in Range(orders) : r.entity = result.self.entity)
    => /\ result.outcome = "ok"
       /\ \A k \in 1..Len(orders) :
             orders[k].display_id =
                 Prefix2(orders[k].entity) \o Digits(DisplayFloor + (k - 1))

\* C22: once a vendor holds the code with the largest suffix of the width
\* (9999) and the table holds vendors of one entity only, none of them
\* soft-deleted, every code that Vendor.save() generates for that entity
\* differs from every stored code: the save stores its vendor.
C22_AfterLargestSuffix ==
    (/\ result.op = "Vendor.save"
     /\ \A r \in Range(vendors) : r.entity = result.self.entity /\ ~r.is_deleted
     /\ \E r \in Range(vendors) :
           r.vendor_code = LargestVendorCode(result.self.entity))
    => result.outcome = "ok"

\* C23: the sale number and the order number that a save allocates on a date
\* are computed from the stored identifiers of that entity and that date
\* alone: the result is the one the allocation gives on a table that holds
\* only those, and it has suffix 1 when there is none, whatever was stored on
\* earlier dates.
C23_DailyStreamsIndependent ==
    [][/\ (result'.op = "Sale.save" /\ <<sales, result>>' # <<sales, result>>)
          => LET e == result'.self.entity
                 today == SalesOfScope(e, now)
             IN /\ result'.self.sale_number = generate_sale_number(today, e, now)
                /\ today = <<>> => result'.self.sale_number
                                      = SalePrefix(e, now) \o Pad(1, SaleWidth)
       /\ (result'.op = "Order.save" /\ <<orders, result>>' # <<orders, result>>)
          => LET e == result'.self.entity
                 today == OrdersOfScope(e, now)
             IN /\ result'.self.order_number = generate_order_number(today, e, now)
                /\ today = <<>> => result'.self.order_number
                                      = OrderPrefix(e, now) \o Pad(1, OrderWidth)
      ]_vars

\* A sale stored on the day after another sale of its entity, with suffix 1
C23_Witness ==
    /\ result.op = "Sale.save"
    /\ result.outcome = "ok"
    /\ now = 1
    /\ result.self.sale_number = SalePrefix(result.self.entity, 1) \o Pad(1, SaleWidth)
    /\ Len(SalesOfScope(result.self.entity, 0)) > 0
    /\ sales[Len(sales)] = result.self

\* C24: generate_code() returns only a code that no stored GiftCard holds when
\* its existence query runs, and under fair draws a call that is in the loop
\* returns, unless every code has been taken by then.
C24_GenerateCodeReturnsFree ==
    /\ [][(codeReq.pc = "drawn" /\ codeReq'.pc = "returned")
          => /\ codeReq'.code = codeReq.code
             /\ codeReq.code[1] \notin giftCodes]_vars
    /\ (codeReq.pc = "looping") ~> (codeReq.pc = "returned" \/ giftCodes = Codes)

\* The call has drawn a code that was taken, is in the loop again, and a
\* code is left
C24_Retrying ==
    /\ codeReq.pc = "looping"
    /\ codeReq.code # <<>>
    /\ codeReq.code[1] \in giftCodes
    /\ giftCodes # Codes

\* The call has returned a code that no stored card holds, other cards being
\* stored
C24_Witness ==
    /\ codeReq.pc = "returned"
    /\ codeReq.code[1] \notin giftCodes
    /\ giftCodes # {}

RECURSIVE SumAmounts(_)
\* The sum of the amounts of the entries of a history
SumAmounts(txns) == IF txns = <<>> THEN 0
                    ELSE txns[1].amount + SumAmounts(Tail(txns))

\* C25: a gift card that was created with current_balance = initial_amount
\* and changed by redeem() alone has current_balance = initial_amount + the sum
\* of the (negative) amounts of its entries, times_used = the number of its
\* entries, and 0 <= current_balance <= initial_amount.
C25_CardBalanceWithinInitial ==
    /\ card.current_balance = card.initial_amount + SumAmounts(cardTxns)
    /\ card.times_used = Len(cardTxns)
    /\ 0 <= card.current_balance
    /\ card.current_balance <= card.initial_amount

\* C26: every stored sale has balance_amount = total_amount - paid_amount and
\* the payment_status its amounts give (PENDING when paid_amount <= 0, PAID
\* when paid_amount >= total_amount, PARTIAL otherwise), and every stored
\* vendor bill has outstanding_amount = total_amount - paid_amount and the
\* status PENDING, PAID or PARTIALLY_PAID by the same rule, whatever status
\* the caller assigned before save().
C26_StatusFollowsAmounts ==
    /\ \A r \in Range(sales) :
          /\ r.balance_amount = r.total_amount - r.paid_amount
          /\ r.payment_status = (IF r.paid_amount <= 0 THEN "PENDING"
                                 ELSE IF r.paid_amount >= r.total_amount THEN "PAID"
                                 ELSE "PARTIAL")
    /\ \A r \in Range(bills) :
          /\ r.outstanding_amount = r.total_amount - r.paid_amount
          /\ r.status = (IF r.paid_amount <= 0 THEN "PENDING"
                         ELSE IF r.paid_amount >= r.total_amount THEN "PAID"
                         ELSE "PARTIALLY_PAID")

\* A sale was saved after the caller had set it to CANCELLED with a part paid
C26_Witness ==
    /\ result.op = SaleResaveOp("CANCELLED")
    /\ result.amount = 2
    /\ result.self \in Range(sales)
    /\ result.self.payment_status = "PARTIAL"
    /\ bills # <<>>

\* C27: a cart never holds two active items of one (product, variant) pair,
\* and add_item() of a pair that has an active item stores no new row but
\* adds its quantity to that item.
C27_OneActiveItemPerPair ==
    /\ [](\A pv \in Pairs : Cardinality(ActiveOf(cartItems, pv[1], pv[2])) <= 1)
    /\ [][\A pv \in Pairs :
             (/\ result'.op = "add_item"
              /\ result'.outcome = "ok"
              /\ <<cartItems, result>>' # <<cartItems, result>>
              /\ result'.self.product = pv[1]
              /\ result'.self.product_variant = pv[2]
              /\ ActiveOf(cartItems, pv[1], pv[2]) # {})
             => /\ Len(cartItems') = Len(cartItems)
                /\ \A i \in ActiveOf(cartItems, pv[1], pv[2]) :
                      /\ cartItems'[i].is_active
                      /\ cartItems'[i].quantity
                            = cartItems[i].quantity + result'.amount]_vars

\* add_item() has added to the item of a pair that was removed and added
\* again before
C27_Witness ==
    /\ result.op = "add_item"
    /\ result.outcome = "ok"
    /\ Len(cartItems) = 2
    /\ cartItems[1].product = cartItems[2].product
    /\ cartItems[1].product_variant = cartItems[2].product_variant
    /\ ~cartItems[1].is_active
    /\ cartItems[2].is_active
    /\ cartItems[2].quantity = 2
    /\ result.amount = 1

\* C28: the stored cart has subtotal = the sum of line_total over its active
\* items and items_count = the number of its active items, every active item
\* has line_total = unit_price * quantity, and both totals are zero after
\* clear().
C28_CartTotalsMatchItems ==
    LET active == SelectSeq(cartItems, LAMBDA r : r.is_active)
    IN /\ cart.subtotal = SumLineTotals(active)
       /\ cart.items_count = Len(active)
       /\ \A r \in Range(active) : r.line_total = r.unit_price * r.quantity
       /\ result.op = "clear" => cart.subtotal = 0 /\ cart.items_count = 0

\* remove_item() has left one of two items in the cart
C28_Witness ==
    /\ result.op = "remove_item"
    /\ Len(cartItems) = 2
    /\ ~cartItems[1].is_active
    /\ cartItems[2].is_active
    /\ cart.items_count = 1
    /\ cart.subtotal = cartItems[2].line_total
    /\ cart.subtotal > 0

\* C29: a verify_email_api request changes the user only when its token is
\* stored unused and not past expires_at, and then it sets is_verified and
\* marks the token used; a request with a token that is stored used is
\* answered 'Invalid token' and leaves the user alone, and so does every
\* request with a token past its expires_at.
C29_TokenSingleUse ==
    [][(result'.op = "verify_email_api" /\ <<user, tokens, result>>' # <<user, tokens, result>>)
       => LET t == result'.self.token
              stored == {i \in 1..Len(tokens) : tokens[i].token = t}
          IN /\ user' # user
                => \E i \in stored : /\ ~tokens[i].is_used
                                     /\ now <= tokens[i].expires_at
                                     /\ tokens'[i].is_used
                                     /\ user'.is_verified
             /\ (\E i \in stored : tokens[i].is_used)
                => /\ result'.outcome = "Invalid token"
                   /\ user' = user
             /\ (\A i \in stored : now > tokens[i].expires_at) => user' = user
      ]_vars

\* A token that verified the user has been presented again, and rejected
C29_Witness ==
    /\ result.op = "verify_email_api"
    /\ result.outcome = "Invalid token"
    /\ user.is_verified
    /\ \E i \in 1..Len(tokens) : tokens[i].token = result.self.token /\ tokens[i].is_used

====
